---- MODULE Spec2Model ----
(***************************************************************************)
(* Model of src/indirect.h: the value-semantic container indirect<T>, its  *)
(* three control blocks and the heap they allocate from.                   *)
(*                                                                         *)
(* Types are numbered by derivation depth: 1 is the base class, a larger   *)
(* number is a more derived class, and U* converts to T* iff U >= T.       *)
(* Every container variable of the client program is a slot with a fixed   *)
(* static type (ty), declared by the program; a slot is constructed, used  *)
(* and destroyed.                                                          *)
(* The build modelled is the debug build (assert enabled).                 *)
(***************************************************************************)
EXTENDS Integers, Sequences, FiniteSets

\* ---- bounds ----
MaxAddr == 3        \* object addresses 1..MaxAddr
MaxCell == 6        \* control-block identities 1..MaxCell
MaxOps  == 3        \* operations the client program performs

NULL == 0

Types == {1, 2, 3}
\* the declarations of the client program: the static types of its
\* container variables
Layouts == {<<1, 1, 2>>, <<1, 2, 3>>}
Slots == {1, 2, 3}
Addr == 1..MaxAddr
CellId == 1..MaxCell
\* two distinguishable states of an owned object
Val == {0, 1}
\* an operation allocates at most one cell per level of the deepest chain of
\* cells, which has one cell per type; fail \in 1..MaxFail names the cell
\* allocation that fails, 0 none
MaxFail == Cardinality(Types)
\* the (copier, deleter) pairs a caller passes to the pointer constructor:
\* the defaults C{}, D{} and a pair of its own
DefaultStrategies == {<<"default_copier", "default_deleter">>}
Strategies == DefaultStrategies \cup {<<"custom_copier", "custom_deleter">>}

VARIABLES
  ty,      \* ty[s]: the static type T of the indirect<T> declared in slot s
  alive,   \* alive[s]: slot s holds a constructed indirect<ty[s]>
  ptr,     \* ptr[s]: ptr_ of the container in slot s
  cb,      \* cb[s]: cb_ of the container in slot s (a cell identity or NULL)
  cells,   \* the control blocks on the heap
  objs,    \* the owned objects on the heap
  st,      \* "running", or how the program ended
  ops,     \* the number of operations the client program has performed
  last     \* the last operation: its name, operands, arguments, outcome and
           \* heap events, and whether it directly followed clear() on its source

vars == <<ty, alive, ptr, cb, cells, objs, st, ops, last>>

FreeObj == [live |-> FALSE, dyn |-> 0, val |-> 0]
FreeCell == [kind |-> "free", T |-> 0, U |-> 0, obj |-> NULL, delegate |-> NULL,
             c |-> "none", d |-> "none"]

Heap(cs, os) == [cells |-> cs, objs |-> os, log |-> <<>>]

FreeAddrs == {a \in Addr : ~objs[a].live}
FreeCellIds(h) == {i \in CellId : h.cells[i].kind = "free"}
MinOf(S) == CHOOSE x \in S : \A y \in S : x <= y

\* What operator new can do for the next object: return the lowest free
\* address (a first-fit allocator), or fail (NULL).
NewAddrs == IF FreeAddrs = {} THEN {NULL} ELSE {MinOf(FreeAddrs), NULL}

Ev(e, x, d) == [e |-> e, x |-> x, d |-> d]
Note(h, e, x, d) == [h EXCEPT !.log = Append(@, Ev(e, x, d))]

\* new U(...): a NULL address stands for a failed allocation or a throwing
\* constructor (nothing stays allocated).
NewObj(h, a, dyn, val) ==
  Note([h EXCEPT !.objs[a] = [live |-> TRUE, dyn |-> dyn, val |-> val]],
       "new_obj", a, "none")

DelObj(h, a, d) ==
  Note([h EXCEPT !.objs[a] = FreeObj], "del_obj", a, d)

\* std::make_unique<...control_block>: fails when told to (fail = 1) or when
\* the heap has no room left.
CellAllocFails(h, fail) == fail = 1 \/ FreeCellIds(h) = {}

NewCell(h, cell) ==
  LET id == MinOf(FreeCellIds(h)) IN
  [h |-> Note([h EXCEPT !.cells[id] = cell], "new_cell", id, "none"), id |-> id]

Threw(h, n) == [ok |-> FALSE, ub |-> FALSE, h |-> h, id |-> NULL, n |-> n]
Undefined(h) == [ok |-> FALSE, ub |-> TRUE, h |-> h, id |-> NULL, n |-> 0]
Done(r, n) == [ok |-> TRUE, ub |-> FALSE, h |-> r.h, id |-> r.id, n |-> n]

\* ~control_block through unique_ptr: the cell's members are destroyed, then
\* the cell's storage is freed.
RECURSIVE DestroyCell(_, _)
DestroyCell(h, id) ==
  IF id = NULL THEN h
  ELSE LET cell == h.cells[id]
           h1 == CASE cell.kind = "pointer" ->
                        IF cell.obj = NULL THEN h ELSE DelObj(h, cell.obj, cell.d)
                   [] cell.kind = "direct" -> DelObj(h, cell.obj, "inline")
                   [] cell.kind = "delegating" -> DestroyCell(h, cell.delegate)
                   [] OTHER -> h
       IN Note([h1 EXCEPT !.cells[id] = FreeCell], "del_cell", id, "none")

\* control_block<T>::ptr()
RECURSIVE PtrDefined(_, _)
PtrDefined(cs, id) ==
  CASE cs[id].kind = "delegating" ->
         cs[id].delegate # NULL /\ PtrDefined(cs, cs[id].delegate)
    [] cs[id].kind = "free" -> FALSE
    [] OTHER -> TRUE

RECURSIVE CellPtr(_, _)
CellPtr(cs, id) ==
  CASE cs[id].kind = "pointer" -> cs[id].obj
    [] cs[id].kind = "direct" -> cs[id].obj
    [] cs[id].kind = "delegating" ->
         IF cs[id].delegate = NULL THEN NULL ELSE CellPtr(cs, cs[id].delegate)
    [] OTHER -> NULL

\* A pointer cell that forgets the strategies it was built with and wraps
\* the copy with default-constructed ones.
PointerCopy_DefaultStrategies(cell, a) ==
  [cell EXCEPT !.obj = a, !.c = "default_copier", !.d = "default_deleter"]

\* pointer_control_block(c_(*p_), c_, d_): the cell clone() wraps the copy in
PointerCopy(cell, a) == [cell EXCEPT !.obj = a]

\* control_block<T>::clone().  a: the address new returns for the copy (NULL:
\* new throws); fail: the 1-based index of the cell allocation that fails.
\* The result's n counts the cell allocations attempted.
RECURSIVE Clone(_, _, _, _)
Clone(h, id, a, fail) ==
  LET cell == h.cells[id] IN
  CASE cell.kind = "pointer" ->
         IF cell.obj = NULL THEN Undefined(h)
         ELSE IF a = NULL THEN Threw(Note(h, "copier", cell.obj, cell.c), 0)
         ELSE LET h1 == NewObj(Note(h, "copier", cell.obj, cell.c), a,
                               cell.U, h.objs[cell.obj].val)
              IN IF CellAllocFails(h1, fail) THEN Threw(h1, 1)
                 ELSE Done(NewCell(h1, PointerCopy(cell, a)), 1)
    [] cell.kind = "direct" ->
         IF a = NULL \/ CellAllocFails(h, fail) THEN Threw(h, 1)
         ELSE LET h1 == NewObj(h, a, cell.U, h.objs[cell.obj].val)
              IN Done(NewCell(h1, [cell EXCEPT !.obj = a]), 1)
    [] cell.kind = "delegating" ->
         IF cell.delegate = NULL THEN Undefined(h)
         ELSE LET r == Clone(h, cell.delegate, a, fail) IN
              IF ~r.ok THEN r
              ELSE IF CellAllocFails(r.h, fail - r.n)
                   THEN Threw(DestroyCell(r.h, r.id), r.n + 1)
                   ELSE Done(NewCell(r.h, [cell EXCEPT !.delegate = r.id]), r.n + 1)
    [] OTHER -> Undefined(h)

\* The arguments of an operation other than containers: the value v an
\* object is constructed from or set to, and for the pointer constructor
\* the pointer u, its static pointee type U and the dynamic type dyn of *u.
NoArg == [v |-> 0, u |-> NULL, U |-> 0, dyn |-> 0]

Init ==
  /\ ty \in Layouts
  /\ alive = [s \in Slots |-> FALSE]
  /\ ptr = [s \in Slots |-> NULL]
  /\ cb = [s \in Slots |-> NULL]
  /\ cells = [i \in CellId |-> FreeCell]
  /\ objs = [a \in Addr |-> FreeObj]
  /\ st = "running"
  /\ ops = 0
  /\ last = [op |-> "init", dst |-> 0, src |-> 0, arg |-> NoArg, res |-> "ok",
             log |-> <<>>, after_clear |-> FALSE]

H0 == Heap(cells, objs)

\* the client program is still running and performs another operation
Running == st = "running" /\ ops < MaxOps

\* The outcome of one operation: the containers and heap it leaves, and how
\* it ended: "ok", "throw", or the way the program stopped ("crashed": a null
\* pointer was dereferenced; "asserted": an assert failed; "terminated": an
\* exception left a noexcept function).  A stopped program keeps the state
\* the operation started from.
Out(al, p, c, h, res) ==
  [alive |-> al, ptr |-> p, cb |-> c, h |-> h, res |-> res,
   st |-> IF res \in {"ok", "throw"} THEN "running" ELSE res]

ApplyArg(op, dst, src, arg, o) ==
  /\ ty' = ty
  /\ alive' = o.alive
  /\ ptr' = o.ptr
  /\ cb' = o.cb
  /\ cells' = o.h.cells
  /\ objs' = o.h.objs
  /\ st' = o.st
  /\ ops' = ops + 1
  /\ last' = [op |-> op, dst |-> dst, src |-> src, arg |-> arg, res |-> o.res,
              log |-> o.h.log,
              after_clear |-> (last.op = "clear" /\ last.dst = src)]

Apply(op, dst, src, o) == ApplyArg(op, dst, src, NoArg, o)

\* explicit operator bool() const
Bool(s) == cb[s] # NULL

\* bool empty() const
Empty(s) == ~(cb[s] # NULL)

\* indirect()
DefaultCtorOut(s) == Out([alive EXCEPT ![s] = TRUE], ptr, cb, H0, "ok")

DefaultCtor(s) ==
  /\ Running /\ ~alive[s]
  /\ Apply("default_ctor", s, 0, DefaultCtorOut(s))

\* The pointer constructor without the assertion of line 150.
AdoptCtorOut_NoTypeCheck(s, U, dyn, v, a, c, d, fail) ==
  IF a = NULL THEN Out([alive EXCEPT ![s] = TRUE], ptr, cb, H0, "ok")
  ELSE LET h1 == NewObj(H0, a, dyn, v) IN
       IF CellAllocFails(h1, fail) THEN Out(alive, ptr, cb, h1, "throw")
       ELSE LET r == NewCell(h1, [kind |-> "pointer", T |-> ty[s], U |-> U,
                                  obj |-> a, delegate |-> NULL, c |-> c, d |-> d])
            IN Out([alive EXCEPT ![s] = TRUE], [ptr EXCEPT ![s] = a],
                   [cb EXCEPT ![s] = r.id], r.h, "ok")

\* explicit indirect(U* u, C copier, D deleter).  a = NULL: u is null; else u
\* points to an object of dynamic type dyn and value v that the caller has
\* just allocated at address a.
AdoptCtorOut(s, U, dyn, v, a, c, d, fail) ==
  IF a = NULL THEN Out([alive EXCEPT ![s] = TRUE], ptr, cb, H0, "ok")
  ELSE IF dyn # U THEN Out(alive, ptr, cb, H0, "asserted")
  ELSE LET h1 == NewObj(H0, a, dyn, v) IN
       IF CellAllocFails(h1, fail) THEN Out(alive, ptr, cb, h1, "throw")
       ELSE LET r == NewCell(h1, [kind |-> "pointer", T |-> ty[s], U |-> U,
                                  obj |-> a, delegate |-> NULL, c |-> c, d |-> d])
            IN Out([alive EXCEPT ![s] = TRUE], [ptr EXCEPT ![s] = a],
                   [cb EXCEPT ![s] = r.id], r.h, "ok")

\* S: the strategy pairs the client program passes
AdoptCtorWith(s, S) ==
  /\ Running /\ ~alive[s]
  /\ \E U \in Types, dyn \in Types, v \in Val, a \in NewAddrs,
        cd \in S, fail \in 0..1 :
       /\ U >= ty[s] /\ dyn >= U
       /\ (a = NULL \/ dyn # U) => fail = 0       \* no cell is built: fail is moot
       /\ (a = NULL \/ dyn # U \/ fail = 1) => v = 0 \* nothing is owned: v is moot
       /\ a = NULL => (dyn = U /\ U = ty[s])       \* there is no *u
       /\ ApplyArg("adopt_ctor", s, 0, [v |-> v, u |-> a, U |-> U, dyn |-> dyn],
                   AdoptCtorOut(s, U, dyn, v, a, cd[1], cd[2], fail))

AdoptCtor(s) == AdoptCtorWith(s, DefaultStrategies)

AdoptCtorCustom(s) == AdoptCtorWith(s, Strategies)

\* indirect<U> tmp(p): the same-type copy constructor, as a value
\* (lines 161-170): the copy's cell and pointer, or the failure.
CopyOf(h, p, a, fail) ==
  IF ~Bool(p) THEN [ok |-> TRUE, ub |-> FALSE, h |-> h, id |-> NULL, n |-> 0, ptr |-> NULL]
  ELSE LET r == Clone(Note(h, "clone", cb[p], "none"), cb[p], a, fail) IN
       [ok |-> r.ok, ub |-> r.ub, h |-> r.h, id |-> r.id, n |-> r.n,
        ptr |-> IF r.ok THEN CellPtr(r.h.cells, r.id) ELSE NULL]

\* indirect(const indirect& p)
CopyCtorOut(s, p, a, fail) ==
  LET r == CopyOf(H0, p, a, fail) IN
  IF r.ub THEN Out(alive, ptr, cb, H0, "crashed")
  ELSE IF ~r.ok THEN Out(alive, ptr, cb, r.h, "throw")
  ELSE Out([alive EXCEPT ![s] = TRUE], [ptr EXCEPT ![s] = r.ptr],
           [cb EXCEPT ![s] = r.id], r.h, "ok")

CopyCtor(s, p) ==
  /\ Running /\ ~alive[s] /\ alive[p] /\ ty[p] = ty[s]
  /\ \E a \in NewAddrs, fail \in 0..MaxFail :
       /\ (a = NULL /\ Bool(p)) => fail = 0   \* new throws before any cell is built
       /\ Apply("copy_ctor", s, p, CopyCtorOut(s, p, a, fail))

\* A converting copy constructor that wraps the source's own cell instead of
\* the cell of tmp.
ConvCopyCtorOut_StealsSource(s, p, a, fail) ==
  IF CellAllocFails(H0, fail) THEN Out(alive, ptr, cb, H0, "throw")
  ELSE LET r == NewCell(H0, [kind |-> "delegating", T |-> ty[s],
                             U |-> ty[p], obj |-> NULL, delegate |-> cb[p],
                             c |-> "none", d |-> "none"])
       IN Out([alive EXCEPT ![s] = TRUE],
              [ptr EXCEPT ![s] = ptr[p], ![p] = NULL],
              [cb EXCEPT ![s] = r.id, ![p] = NULL], r.h, "ok")

\* template <typename U> indirect(const indirect<U>& p)
ConvCopyCtorOut(s, p, a, fail) ==
  LET tmp == CopyOf(H0, p, a, fail) IN
  IF tmp.ub THEN Out(alive, ptr, cb, H0, "crashed")
  ELSE IF ~tmp.ok THEN Out(alive, ptr, cb, tmp.h, "throw")
  ELSE IF CellAllocFails(tmp.h, fail - tmp.n)
       THEN Out(alive, ptr, cb, DestroyCell(tmp.h, tmp.id), "throw")
  ELSE LET r == NewCell(tmp.h, [kind |-> "delegating", T |-> ty[s],
                                U |-> ty[p], obj |-> NULL, delegate |-> tmp.id,
                                c |-> "none", d |-> "none"])
       IN Out([alive EXCEPT ![s] = TRUE], [ptr EXCEPT ![s] = tmp.ptr],
              [cb EXCEPT ![s] = r.id], r.h, "ok")

ConvCopyCtor(s, p) ==
  /\ Running /\ ~alive[s] /\ alive[p] /\ ty[p] > ty[s]
  /\ \E a \in NewAddrs, fail \in 0..MaxFail :
       /\ (a = NULL /\ Bool(p)) => fail = 0   \* new throws before any cell is built
       /\ Apply("conv_copy_ctor", s, p, ConvCopyCtorOut(s, p, a, fail))

\* The move constructor without line 190 (p.ptr_ = nullptr).
MoveCtorOut_KeepsSourcePtr(s, p) ==
  Out([alive EXCEPT ![s] = TRUE],
      [ptr EXCEPT ![s] = ptr[p]],
      [cb EXCEPT ![s] = cb[p], ![p] = NULL], H0, "ok")

\* indirect(indirect&& p) noexcept
MoveCtorOut(s, p) ==
  Out([alive EXCEPT ![s] = TRUE],
      [ptr EXCEPT ![s] = ptr[p], ![p] = NULL],
      [cb EXCEPT ![s] = cb[p], ![p] = NULL], H0, "ok")

MoveCtor(s, p) ==
  /\ Running /\ ~alive[s] /\ alive[p] /\ ty[p] = ty[s]
  /\ Apply("move_ctor", s, p, MoveCtorOut(s, p))

\* The converting move constructor without line 200 (p.ptr_ = nullptr).
ConvMoveCtorOut_KeepsSourcePtr(s, p, fail) ==
  IF CellAllocFails(H0, fail) THEN Out(alive, ptr, cb, H0, "terminated")
  ELSE LET r == NewCell(H0, [kind |-> "delegating", T |-> ty[s],
                             U |-> ty[p], obj |-> NULL, delegate |-> cb[p],
                             c |-> "none", d |-> "none"])
       IN Out([alive EXCEPT ![s] = TRUE],
              [ptr EXCEPT ![s] = ptr[p]],
              [cb EXCEPT ![s] = r.id, ![p] = NULL], r.h, "ok")

\* template <typename U> indirect(indirect<U>&& p) noexcept
ConvMoveCtorOut(s, p, fail) ==
  IF CellAllocFails(H0, fail) THEN Out(alive, ptr, cb, H0, "terminated")
  ELSE LET r == NewCell(H0, [kind |-> "delegating", T |-> ty[s],
                             U |-> ty[p], obj |-> NULL, delegate |-> cb[p],
                             c |-> "none", d |-> "none"])
       IN Out([alive EXCEPT ![s] = TRUE],
              [ptr EXCEPT ![s] = ptr[p], ![p] = NULL],
              [cb EXCEPT ![s] = r.id, ![p] = NULL], r.h, "ok")

ConvMoveCtor(s, p) ==
  /\ Running /\ ~alive[s] /\ alive[p] /\ ty[p] > ty[s]
  /\ \E fail \in 0..1 : Apply("conv_move_ctor", s, p, ConvMoveCtorOut(s, p, fail))

\* Copy assignment that resets cb_ before it clones.
CopyAssignOut_ReleasesFirst(s, p, a, fail) ==
  IF p = s THEN Out(alive, ptr, cb, H0, "ok")
  ELSE LET h0 == DestroyCell(H0, cb[s]) IN
       IF ~Bool(p)
       THEN Out(alive, [ptr EXCEPT ![s] = NULL], [cb EXCEPT ![s] = NULL], h0, "ok")
       ELSE LET r == Clone(Note(h0, "clone", cb[p], "none"), cb[p], a, fail) IN
            IF r.ub THEN Out(alive, ptr, cb, H0, "crashed")
            ELSE IF ~r.ok
                 THEN Out(alive, [ptr EXCEPT ![s] = NULL], [cb EXCEPT ![s] = NULL],
                          r.h, "throw")
            ELSE Out(alive, [ptr EXCEPT ![s] = CellPtr(r.h.cells, r.id)],
                     [cb EXCEPT ![s] = r.id], r.h, "ok")

\* indirect& operator=(const indirect& p)
CopyAssignOut(s, p, a, fail) ==
  IF p = s THEN Out(alive, ptr, cb, H0, "ok")
  ELSE IF ~Bool(p)
       THEN Out(alive, [ptr EXCEPT ![s] = NULL], [cb EXCEPT ![s] = NULL],
                DestroyCell(H0, cb[s]), "ok")
  ELSE LET r == Clone(Note(H0, "clone", cb[p], "none"), cb[p], a, fail) IN
       IF r.ub THEN Out(alive, ptr, cb, H0, "crashed")
       ELSE IF ~r.ok THEN Out(alive, ptr, cb, r.h, "throw")
       ELSE Out(alive, [ptr EXCEPT ![s] = CellPtr(r.h.cells, r.id)],
                [cb EXCEPT ![s] = r.id], DestroyCell(r.h, cb[s]), "ok")

CopyAssign(s, p) ==
  /\ Running /\ alive[s] /\ alive[p] /\ ty[p] = ty[s]
  /\ \E a \in NewAddrs, fail \in 0..MaxFail :
       /\ (a = NULL /\ Bool(p)) => fail = 0   \* new throws before any cell is built
       /\ Apply("copy_assign", s, p, CopyAssignOut(s, p, a, fail))

\* template <typename U> indirect& operator=(const indirect<U>& p):
\* indirect<U> tmp(p); *this = std::move(tmp);
ConvCopyAssignOut(s, p, a, fail) ==
  LET tmp == CopyOf(H0, p, a, fail) IN
  IF tmp.ub THEN Out(alive, ptr, cb, H0, "crashed")
  ELSE IF ~tmp.ok THEN Out(alive, ptr, cb, tmp.h, "throw")
  ELSE IF CellAllocFails(tmp.h, fail - tmp.n)
       THEN Out(alive, ptr, cb, H0, "terminated")
  ELSE LET r == NewCell(tmp.h, [kind |-> "delegating", T |-> ty[s],
                                U |-> ty[p], obj |-> NULL, delegate |-> tmp.id,
                                c |-> "none", d |-> "none"])
       IN Out(alive, [ptr EXCEPT ![s] = tmp.ptr], [cb EXCEPT ![s] = r.id],
              DestroyCell(r.h, cb[s]), "ok")

ConvCopyAssign(s, p) ==
  /\ Running /\ alive[s] /\ alive[p] /\ ty[p] > ty[s]
  /\ \E a \in NewAddrs, fail \in 0..MaxFail :
       /\ (a = NULL /\ Bool(p)) => fail = 0   \* new throws before any cell is built
       /\ Apply("conv_copy_assign", s, p, ConvCopyAssignOut(s, p, a, fail))

\* Move assignment without the identity check of lines 243-246: the
\* unique_ptr survives its self-move, then ptr_ is nulled through p.
MoveAssignOut_NoSelfCheck(s, p) ==
  IF p = s THEN Out(alive, [ptr EXCEPT ![p] = NULL], cb, H0, "ok")
  ELSE Out(alive, [ptr EXCEPT ![s] = ptr[p], ![p] = NULL],
           [cb EXCEPT ![s] = cb[p], ![p] = NULL], DestroyCell(H0, cb[s]), "ok")

\* Move assignment without line 250 (p.ptr_ = nullptr).
MoveAssignOut_KeepsSourcePtr(s, p) ==
  IF p = s THEN Out(alive, ptr, cb, H0, "ok")
  ELSE Out(alive, [ptr EXCEPT ![s] = ptr[p]],
           [cb EXCEPT ![s] = cb[p], ![p] = NULL], DestroyCell(H0, cb[s]), "ok")

\* indirect& operator=(indirect&& p) noexcept
MoveAssignOut(s, p) ==
  IF p = s THEN Out(alive, ptr, cb, H0, "ok")
  ELSE Out(alive, [ptr EXCEPT ![s] = ptr[p], ![p] = NULL],
           [cb EXCEPT ![s] = cb[p], ![p] = NULL], DestroyCell(H0, cb[s]), "ok")

MoveAssign(s, p) ==
  /\ Running /\ alive[s] /\ alive[p] /\ ty[p] = ty[s]
  /\ Apply("move_assign", s, p, MoveAssignOut(s, p))

\* template <typename U> indirect& operator=(indirect<U>&& p) noexcept
ConvMoveAssignOut(s, p, fail) ==
  IF CellAllocFails(H0, fail) THEN Out(alive, ptr, cb, H0, "terminated")
  ELSE LET r == NewCell(H0, [kind |-> "delegating", T |-> ty[s],
                             U |-> ty[p], obj |-> NULL, delegate |-> cb[p],
                             c |-> "none", d |-> "none"])
       IN Out(alive, [ptr EXCEPT ![s] = ptr[p], ![p] = NULL],
              [cb EXCEPT ![s] = r.id, ![p] = NULL], DestroyCell(r.h, cb[s]), "ok")

ConvMoveAssign(s, p) ==
  /\ Running /\ alive[s] /\ alive[p] /\ ty[p] > ty[s]
  /\ \E fail \in 0..1 : Apply("conv_move_assign", s, p, ConvMoveAssignOut(s, p, fail))

\* swap without line 272 (swap(cb_, p.cb_)).
SwapOut_OnlyPointers(s, p) ==
  Out(alive, [ptr EXCEPT ![s] = ptr[p], ![p] = ptr[s]], cb, H0, "ok")

\* void swap(indirect& p) noexcept, and the non-member swap
SwapOut(s, p) ==
  Out(alive, [ptr EXCEPT ![s] = ptr[p], ![p] = ptr[s]],
      [cb EXCEPT ![s] = cb[p], ![p] = cb[s]], H0, "ok")

Swap(s, p) ==
  /\ Running /\ alive[s] /\ alive[p] /\ ty[p] = ty[s]
  /\ Apply("swap", s, p, SwapOut(s, p))

\* emplace that resets cb_ before it builds the new cell, so that the
\* allocator hands the freed storage out again.
EmplaceOut_ReleasesFirst(s, v, a, fail) ==
  IF a = NULL \/ CellAllocFails(H0, fail) THEN Out(alive, ptr, cb, H0, "throw")
  ELSE LET h1 == DestroyCell(H0, cb[s])
           a1 == MinOf({x \in Addr : ~h1.objs[x].live})
           r == NewCell(NewObj(h1, a1, ty[s], v),
                        [kind |-> "direct", T |-> ty[s], U |-> ty[s],
                         obj |-> a1, delegate |-> NULL, c |-> "none", d |-> "none"])
       IN Out(alive, [ptr EXCEPT ![s] = CellPtr(r.h.cells, r.id)],
              [cb EXCEPT ![s] = r.id], r.h, "ok")

\* void emplace(Ts&&... ts)
EmplaceOut(s, v, a, fail) ==
  IF a = NULL \/ CellAllocFails(H0, fail) THEN Out(alive, ptr, cb, H0, "throw")
  ELSE LET r == NewCell(NewObj(H0, a, ty[s], v),
                        [kind |-> "direct", T |-> ty[s], U |-> ty[s],
                         obj |-> a, delegate |-> NULL, c |-> "none", d |-> "none"])
       IN Out(alive, [ptr EXCEPT ![s] = CellPtr(r.h.cells, r.id)],
              [cb EXCEPT ![s] = r.id], DestroyCell(r.h, cb[s]), "ok")

Emplace(s) ==
  /\ Running /\ alive[s]
  /\ \E v \in Val, a \in NewAddrs, fail \in 0..1 :
       /\ a = NULL => fail = 0                \* new throws first
       /\ (a = NULL \/ fail = 1) => v = 0     \* nothing is built: v is moot
       /\ ApplyArg("emplace", s, 0, [NoArg EXCEPT !.v = v], EmplaceOut(s, v, a, fail))

\* clear() without line 287 (cb_.reset()).
ClearOut_KeepsCell(s) ==
  Out(alive, [ptr EXCEPT ![s] = NULL], cb, H0, "ok")

\* void clear()
ClearOut(s) ==
  Out(alive, [ptr EXCEPT ![s] = NULL], [cb EXCEPT ![s] = NULL],
      DestroyCell(H0, cb[s]), "ok")

Clear(s) ==
  /\ Running /\ alive[s]
  /\ Apply("clear", s, 0, ClearOut(s))

\* ~indirect() = default
DestroyOut(s) ==
  Out([alive EXCEPT ![s] = FALSE], [ptr EXCEPT ![s] = NULL],
      [cb EXCEPT ![s] = NULL], DestroyCell(H0, cb[s]), "ok")

Destroy(s) ==
  /\ Running /\ alive[s]
  /\ Apply("destroy", s, 0, DestroyOut(s))

\* template <typename T, typename... Ts> indirect<T> make_indirect(Ts&&... ts)
MakeIndirectOut(s, v, a, fail) ==
  IF a = NULL \/ CellAllocFails(H0, fail) THEN Out(alive, ptr, cb, H0, "throw")
  ELSE LET r == NewCell(NewObj(H0, a, ty[s], v),
                        [kind |-> "direct", T |-> ty[s], U |-> ty[s],
                         obj |-> a, delegate |-> NULL, c |-> "none", d |-> "none"])
       IN Out([alive EXCEPT ![s] = TRUE], [ptr EXCEPT ![s] = CellPtr(r.h.cells, r.id)],
              [cb EXCEPT ![s] = r.id], r.h, "ok")

MakeIndirect(s) ==
  /\ Running /\ ~alive[s]
  /\ \E v \in Val, a \in NewAddrs, fail \in 0..1 :
       /\ a = NULL => fail = 0                \* new throws first
       /\ (a = NULL \/ fail = 1) => v = 0     \* nothing is built: v is moot
       /\ ApplyArg("make_indirect", s, 0, [NoArg EXCEPT !.v = v],
                   MakeIndirectOut(s, v, a, fail))

\* T& operator*() / T& value(), used to assign v to the owned object by a
\* caller that has checked bool(*this) first.
MutateOut(s, v) ==
  IF ptr[s] = NULL THEN Out(alive, ptr, cb, H0, "crashed")
  ELSE Out(alive, ptr, cb, [H0 EXCEPT !.objs[ptr[s]].val = v], "ok")

Mutate(s) ==
  /\ Running /\ alive[s] /\ Bool(s)
  /\ \E v \in Val : ApplyArg("mutate", s, 0, [NoArg EXCEPT !.v = v], MutateOut(s, v))

\* the accessors: operator->, value() and operator*, read-only and mutable
Accessors == {"arrow_const", "value_const", "deref_const", "arrow", "value", "deref"}

\* Accessors that all start with assert(ptr_).
AccessOut_AllAsserted(s, how) ==
  IF ptr[s] # NULL THEN Out(alive, ptr, cb, H0, "ok")
  ELSE Out(alive, ptr, cb, H0, "asserted")

\* A call of an accessor whose result the caller reads or writes through.
\* Only the read-only operator-> asserts ptr_ (line 307); the others return
\* ptr_ or *ptr_ as it is, and the use of a null result stops the program.
AccessOut(s, how) ==
  IF ptr[s] # NULL THEN Out(alive, ptr, cb, H0, "ok")
  ELSE IF how = "arrow_const" THEN Out(alive, ptr, cb, H0, "asserted")
  ELSE Out(alive, ptr, cb, H0, "crashed")

\* A read that goes through changes nothing.
Access(s) ==
  /\ Running /\ alive[s]
  /\ \E how \in Accessors :
       IF AccessOut(s, how).res = "ok" THEN UNCHANGED vars
       ELSE Apply(how, s, 0, AccessOut(s, how))

\* the operations that construct the owned object in place
InPlaceOps ==
  \/ \E s \in Slots : MakeIndirect(s)
  \/ \E s \in Slots : Emplace(s)

\* the operations that construct no object from arguments
OtherOps ==
  \/ \E s \in Slots : DefaultCtor(s)
  \/ \E s, p \in Slots : CopyCtor(s, p)
  \/ \E s, p \in Slots : ConvCopyCtor(s, p)
  \/ \E s, p \in Slots : MoveCtor(s, p)
  \/ \E s, p \in Slots : ConvMoveCtor(s, p)
  \/ \E s, p \in Slots : CopyAssign(s, p)
  \/ \E s, p \in Slots : ConvCopyAssign(s, p)
  \/ \E s, p \in Slots : MoveAssign(s, p)
  \/ \E s, p \in Slots : ConvMoveAssign(s, p)
  \/ \E s, p \in Slots : Swap(s, p)
  \/ \E s \in Slots : Clear(s)
  \/ \E s \in Slots : Mutate(s)
  \/ \E s \in Slots : Access(s)
  \/ \E s \in Slots : Destroy(s)

\* a client program that adopts with the default strategies only
Next == (\E s \in Slots : AdoptCtor(s)) \/ InPlaceOps \/ OtherOps

Spec == Init /\ [][Next]_vars

\* a client program with two containers of the base class and one of a
\* derived class, which allocates every object itself and also adopts with
\* strategies of its own
InitStrategies == Init /\ ty = <<1, 1, 2>>

NextStrategies == (\E s \in Slots : AdoptCtorCustom(s)) \/ OtherOps

SpecStrategies == InitStrategies /\ [][NextStrategies]_vars

TypeOK ==
  /\ alive \in [Slots -> BOOLEAN]
  /\ ptr \in [Slots -> Addr \cup {NULL}]
  /\ cb \in [Slots -> CellId \cup {NULL}]
  /\ st \in {"running", "crashed", "asserted", "terminated"}

\* ---- properties ----

LogHas(l, e) == \E i \in DOMAIN l : l[i].e = e
Allocates(l) == LogHas(l, "new_obj") \/ LogHas(l, "new_cell")
Kinds == {"pointer", "direct"}

\* the cells that own the object at address a
Owners(a) == {i \in CellId : cells[i].kind \in Kinds /\ cells[i].obj = a}

\* the containers and delegating cells that own cell i
Holders(i) ==
  Cardinality({s \in Slots : cb[s] = i}) +
  Cardinality({j \in CellId : cells[j].kind = "delegating" /\ cells[j].delegate = i})

\* the object a container reaches through its cell (NULL: none)
Reach(s) ==
  IF cb[s] # NULL /\ PtrDefined(cells, cb[s]) THEN CellPtr(cells, cb[s]) ELSE NULL

\* C1: in every reachable state, for every container, ptr_ is null if and
\* only if cb_ is null.
C1_PtrNullIffCellNull ==
  \A s \in Slots : alive[s] => ((ptr[s] = NULL) <=> (cb[s] = NULL))

\* C2: ownership is linear: every owned object is live and has one owning
\* cell, every cell has at most one owner (a container or a delegating
\* cell), and two distinct containers never report or reach the same object.
C2_LinearOwnership ==
  /\ \A a \in Addr : Cardinality(Owners(a)) <= 1
  /\ \A i \in CellId :
       /\ cells[i].kind \in Kinds => objs[cells[i].obj].live
       /\ Holders(i) <= 1
  /\ \A s, p \in Slots :
       s # p => /\ ptr[s] # NULL => ptr[s] # ptr[p]
                /\ Reach(s) # NULL => Reach(s) # Reach(p)
                /\ cb[s] # NULL => cb[s] # cb[p]

C2_Witness ==
  /\ last.op = "move_ctor" /\ last.res = "ok"
  /\ ptr[last.dst] # NULL
  /\ \E s \in Slots : s # last.dst /\ s # last.src /\ ptr[s] # NULL

SameCopies == {"copy_ctor", "copy_assign"}
ConvCopies == {"conv_copy_ctor", "conv_copy_assign"}
\* an operation that was not cut short by an exception
NoException(l) == l.res \in {"ok", "crashed"}

\* C3: a same-type copy construction or copy assignment from a non-empty
\* container a into another container b leaves b owning a live object with
\* a's value at an address other than a's, whatever cell a holds; a later
\* mutation, clear or destruction of one container leaves the objects of the
\* others as they were.
C3_CopyIsIndependent ==
  [][/\ \A s, p \in Slots :
          (/\ last'.op \in SameCopies /\ last'.dst = s /\ last'.src = p
           /\ s # p /\ Bool(p) /\ NoException(last'))
          => /\ st' = "running"
             /\ ptr[p] # NULL /\ ptr'[p] = ptr[p]
             /\ ptr'[s] # NULL /\ ptr'[s] # ptr'[p]
             /\ objs'[ptr'[s]].live
             /\ objs'[ptr'[s]].val = objs'[ptr'[p]].val
             /\ objs'[ptr'[p]] = objs[ptr[p]]
     /\ \A s, p \in Slots :
          (last'.op \in {"mutate", "clear", "destroy"} /\ last'.dst = s /\ p # s
           /\ ptr[p] # NULL)
          => ptr'[p] = ptr[p] /\ objs'[ptr[p]] = objs[ptr[p]]
    ]_vars

\* C4: a converting copy (construction or assignment) of a non-empty
\* container, and every later copy of a container that holds a delegating
\* cell, yields an object of the dynamic type of the source's object.
C4_ConvertingCopyKeepsDynamicType ==
  [][\A s, p \in Slots :
       (/\ last'.dst = s /\ last'.src = p /\ s # p /\ Bool(p) /\ NoException(last')
        /\ \/ last'.op \in ConvCopies
           \/ /\ last'.op \in SameCopies
              /\ cells[cb[p]].kind = "delegating" /\ Reach(p) # NULL)
       => /\ st' = "running"
          /\ ptr[p] # NULL /\ ptr'[s] # NULL
          /\ objs'[ptr'[s]].live
          /\ objs'[ptr'[s]].dyn = objs[ptr[p]].dyn
          /\ objs'[ptr'[s]].dyn >= ty[p]
    ]_vars

\* C5: a same-type move construction or move assignment from a to a distinct
\* b leaves a empty (cell and pointer null), gives b the cell and the object
\* address a had, untouched, and clones and allocates nothing.
C5_SameTypeMoveTransfers ==
  [][\A s, p \in Slots :
       (last'.op \in {"move_ctor", "move_assign"} /\ last'.dst = s /\ last'.src = p
        /\ s # p)
       => /\ last'.res = "ok"
          /\ cb'[p] = NULL /\ ptr'[p] = NULL
          /\ cb'[s] = cb[p] /\ ptr'[s] = ptr[p]
          /\ cb[p] # NULL => cells'[cb[p]] = cells[cb[p]]
          /\ ptr[p] # NULL => objs'[ptr[p]] = objs[ptr[p]]
          /\ ~LogHas(last'.log, "clone") /\ ~LogHas(last'.log, "copier")
          /\ ~Allocates(last'.log)
          /\ \A a \in Addr : objs'[a].live => objs[a].live
          /\ \A i \in CellId : cells'[i].kind # "free" => cells[i].kind # "free"
    ]_vars

C5_Witness ==
  /\ last.op = "move_assign" /\ last.res = "ok" /\ last.dst # last.src
  /\ ptr[last.dst] # NULL /\ cb[last.src] = NULL
  /\ LogHas(last.log, "del_obj")

\* C6: a converting move construction or assignment from a non-empty source
\* that is not stopped by an allocation failure leaves the source empty, the
\* target reporting the address the source held, the source's cell unchanged
\* as the delegate of the target's new delegating cell, and the object
\* neither cloned nor destroyed.
C6_ConvertingMoveRelocates ==
  [][\A s, p \in Slots :
       (last'.op \in {"conv_move_ctor", "conv_move_assign"} /\ last'.dst = s
        /\ last'.src = p /\ Bool(p) /\ last'.res = "ok")
       => /\ cb'[p] = NULL /\ ptr'[p] = NULL
          /\ ptr'[s] = ptr[p]
          /\ cb'[s] # NULL /\ cb'[s] # cb[p]
          /\ cells'[cb'[s]].kind = "delegating"
          /\ cells'[cb'[s]].delegate = cb[p]
          /\ cells'[cb'[s]].T = ty[s] /\ cells'[cb'[s]].U = ty[p]
          /\ cells'[cb[p]] = cells[cb[p]]
          /\ ptr[p] # NULL => objs'[ptr[p]] = objs[ptr[p]] /\ objs[ptr[p]].live
          /\ ~LogHas(last'.log, "clone") /\ ~LogHas(last'.log, "new_obj")
    ]_vars

C6_Witness ==
  /\ last.op = "conv_move_assign" /\ last.res = "ok"
  /\ ptr[last.dst] # NULL /\ cb[last.src] = NULL /\ ptr[last.src] = NULL
  /\ cells[cb[last.dst]].kind = "delegating"
  /\ objs[ptr[last.dst]].live

\* C7: in every reachable state, every container with a non-null cell has
\* ptr_ equal to the address its cell's ptr() reports.
C7_CachedPointerInSync ==
  \A s \in Slots :
    (alive[s] /\ cb[s] # NULL)
    => PtrDefined(cells, cb[s]) /\ ptr[s] = CellPtr(cells, cb[s])

\* C8: copy assignment from an empty source, of the target's type or of a
\* convertible type, leaves the target empty and its former object released.
C8_CopyAssignFromEmptyClears ==
  [][\A s, p \in Slots :
       (last'.op \in {"copy_assign", "conv_copy_assign"} /\ last'.dst = s
        /\ last'.src = p /\ ~Bool(p) /\ last'.res = "ok")
       => /\ cb'[s] = NULL /\ ptr'[s] = NULL
          /\ Reach(s) # NULL => ~objs'[Reach(s)].live
    ]_vars

C10_FailedCloneLeavesNoTrace ==
  [][(last'.op \in {"copy_assign", "conv_copy_assign"} /\ last'.res = "throw")
     => /\ cb' = cb /\ ptr' = ptr /\ alive' = alive
        /\ cells' = cells /\ objs' = objs
    ]_vars

\* C11: swap(a, b) exchanges the cells and the cached pointers of a and b,
\* empty states included, touches no other container, clones, allocates and
\* releases nothing, is undone by a second swap of the same pair, and
\* swap(a, a) leaves a as it was.
C11_SwapExchanges ==
  [][\A s, p \in Slots :
       (last'.op = "swap" /\ last'.dst = s /\ last'.src = p)
       => /\ last'.res = "ok"
          /\ cb'[s] = cb[p] /\ cb'[p] = cb[s]
          /\ ptr'[s] = ptr[p] /\ ptr'[p] = ptr[s]
          /\ \A q \in Slots \ {s, p} : cb'[q] = cb[q] /\ ptr'[q] = ptr[q]
          /\ alive' = alive /\ cells' = cells /\ objs' = objs
          /\ last'.log = <<>>
          /\ SwapOut(s, p)'.cb = cb /\ SwapOut(s, p)'.ptr = ptr
          /\ SwapOut(s, p)'.h.cells = cells /\ SwapOut(s, p)'.h.objs = objs
          /\ s = p => (cb' = cb /\ ptr' = ptr)
    ]_vars

C11_Witness ==
  /\ last.op = "swap" /\ last.res = "ok" /\ last.dst # last.src
  /\ cb[last.dst] # NULL /\ ptr[last.dst] # NULL
  /\ cb[last.src] = NULL /\ ptr[last.src] = NULL

\* C12: make_indirect<T>(v) yields a non-empty container whose object is a
\* T of value v, built in place in a direct cell; emplace(w) on any
\* container, empty or not, leaves it non-empty with an in-place T of value
\* w, in storage other than the storage it held before, and the object and
\* cell it held before are released.
C12_InPlaceConstruction ==
  [][\A s \in Slots :
       (last'.op \in {"make_indirect", "emplace"} /\ last'.dst = s
        /\ last'.res = "ok")
       => /\ alive'[s] /\ cb'[s] # NULL /\ ptr'[s] # NULL
          /\ cells'[cb'[s]].kind = "direct" /\ cells'[cb'[s]].obj = ptr'[s]
          /\ objs'[ptr'[s]].live
          /\ objs'[ptr'[s]].val = last'.arg.v
          /\ objs'[ptr'[s]].dyn = ty[s]
          /\ last'.op = "emplace"
             => /\ ptr'[s] # ptr[s] /\ cb'[s] # cb[s]
                /\ ptr[s] # NULL => ~objs'[ptr[s]].live
                /\ Reach(s) # NULL => ~objs'[Reach(s)].live
                /\ cb[s] # NULL => cells'[cb[s]].kind = "free"
    ]_vars

C12_Witness ==
  /\ last.op = "emplace" /\ last.res = "ok" /\ last.arg.v = 1
  /\ LogHas(last.log, "del_obj")
  /\ ptr[last.dst] # NULL /\ objs[ptr[last.dst]].val = 1

\* the cell at the end of the chain of delegating cells that starts at id
RECURSIVE BaseCell(_, _)
BaseCell(cs, id) ==
  IF cs[id].kind = "delegating" /\ cs[id].delegate # NULL
  THEN BaseCell(cs, cs[id].delegate) ELSE id

CopierCalls(l) == {i \in DOMAIN l : l[i].e = "copier"}

\* C13: when a container owns an object adopted through the pointer
\* constructor, every completed copy of it, and of a copy of it, same-type or
\* converting, invokes the copier captured at adoption exactly once, on the
\* source's object, yields an object of the adopted type U (not of the
\* container's T), and wraps it in a pointer cell with the same copier and
\* deleter.
C13_CopyUsesCapturedStrategies ==
  [][\A s, p \in Slots :
       (/\ last'.op \in SameCopies \cup ConvCopies /\ last'.dst = s
        /\ last'.src = p /\ s # p /\ last'.res = "ok"
        /\ Reach(p) # NULL /\ cells[BaseCell(cells, cb[p])].kind = "pointer")
       => LET b == cells[BaseCell(cells, cb[p])]
              n == cells'[BaseCell(cells', cb'[s])]
          IN /\ Cardinality(CopierCalls(last'.log)) = 1
             /\ \A i \in CopierCalls(last'.log) :
                  last'.log[i] = Ev("copier", b.obj, b.c)
             /\ n.kind = "pointer" /\ n.U = b.U
             /\ n.c = b.c /\ n.d = b.d
             /\ n.obj = ptr'[s] /\ n.obj # b.obj
             /\ objs'[n.obj].live /\ objs'[n.obj].dyn = b.U
             /\ objs'[n.obj].val = objs[b.obj].val
    ]_vars

\* A same-type copy of a converting copy of a container that adopted a more
\* derived object with the caller's own strategies: the only container of
\* type 2 has adopted, so the other two cells of that type are copies.
C13_Witness ==
  /\ last.op = "copy_ctor" /\ last.res = "ok"
  /\ cb[last.src] # NULL /\ cells[cb[last.src]].kind = "delegating"
  /\ Cardinality({i \in CellId : /\ cells[i].kind = "pointer"
                                 /\ cells[i].T = 2 /\ cells[i].U = 3
                                 /\ cells[i].c = "custom_copier"
                                 /\ cells[i].d = "custom_deleter"}) = 3

\* C14: copy assignment and move assignment of a container to itself
\* change nothing: its cell, its pointer, every cell and every object stay as
\* they were and nothing is cloned, allocated or released, whether the
\* container is empty or not.
C14_SelfAssignmentIsNoOp ==
  [][\A s \in Slots :
       (last'.op \in {"copy_assign", "move_assign"} /\ last'.dst = s
        /\ last'.src = s)
       => /\ last'.res = "ok"
          /\ alive' = alive /\ cb' = cb /\ ptr' = ptr
          /\ cells' = cells /\ objs' = objs
          /\ last'.log = <<>>
    ]_vars

C14_Witness ==
  /\ last.op = "move_assign" /\ last.res = "ok" /\ last.dst = last.src
  /\ cb[last.dst] # NULL /\ ptr[last.dst] # NULL
  /\ objs[ptr[last.dst]].live

Releases(l) == {i \in DOMAIN l : l[i].e = "del_obj"}

\* the deleter the owner of the object at a releases it with
DeleterOf(a) ==
  LET i == CHOOSE i \in Owners(a) : TRUE IN
  IF cells[i].kind = "pointer" THEN cells[i].d ELSE "inline"

\* C15: no leak and no double release.  In every step, an object that the
\* step leaves allocated and that was not allocated before is owned by a
\* cell (the object a failed adoption leaves with its caller excepted); an
\* object is released at most once, was live, and an object owned before the
\* step is released with the deleter of its owning cell; an owned object
\* that is no longer owned has been released; and once every container is
\* destroyed no cell is left.
C15_NoLeakNoDoubleRelease ==
  [][/\ \A a \in Addr :
          (objs'[a].live /\ ~objs[a].live
           /\ ~(last'.op = "adopt_ctor" /\ last'.res = "throw"))
          => \E i \in CellId : cells'[i].kind \in Kinds /\ cells'[i].obj = a
     /\ \A i, j \in Releases(last'.log) :
          last'.log[i].x = last'.log[j].x => i = j
     /\ \A i \in Releases(last'.log) :
          LET a == last'.log[i].x IN
          \/ /\ objs[a].live /\ Owners(a) # {}
             /\ last'.log[i].d = DeleterOf(a)
          \/ /\ ~objs[a].live
             /\ \E j \in 1..(i - 1) : last'.log[j] = Ev("new_obj", a, "none")
     /\ \A a \in Addr :
          (objs[a].live /\ Owners(a) # {} /\ st' = "running"
           /\ \A i \in CellId : ~(cells'[i].kind \in Kinds /\ cells'[i].obj = a))
          => ~objs'[a].live
     /\ (\A s \in Slots : ~alive'[s])
          => \A i \in CellId : cells'[i].kind = "free"
    ]_vars

\* the precondition of control_block<T>::clone(): the cell and every cell
\* nested in it hold a non-null inner pointer (p_, delegate_)
RECURSIVE CloneReady(_, _)
CloneReady(cs, id) ==
  CASE cs[id].kind = "pointer" -> cs[id].obj # NULL
    [] cs[id].kind = "direct" -> TRUE
    [] cs[id].kind = "delegating" ->
         cs[id].delegate # NULL /\ CloneReady(cs, cs[id].delegate)
    [] OTHER -> FALSE

\* C16: whenever a copy constructor or copy assignment, same-type or
\* converting, invokes clone() on the cell of its source, that cell and every
\* cell nested in it hold a non-null inner pointer, and the copy does not
\* stop the program.
C16_ClonePreconditionHolds ==
  [][\A s, p \in Slots :
       (/\ last'.op \in SameCopies \cup ConvCopies /\ last'.dst = s
        /\ last'.src = p /\ s # p /\ Bool(p))
       => /\ CloneReady(cells, cb[p])
          /\ last'.res # "crashed"
    ]_vars

\* C17: the pointer constructor given a null pointer yields an empty
\* container and builds no cell; given a pointer to an object whose dynamic
\* type is the static pointee type U it either fails to allocate the cell or
\* yields a non-empty container whose pointer cell owns that very object at
\* the address passed, uncopied; given a pointer to an object of another
\* dynamic type it stops on the assertion before any cell is built.
C17_AdoptionOutcomes ==
  [][\A s \in Slots :
       (last'.op = "adopt_ctor" /\ last'.dst = s)
       => LET g == last'.arg IN
          /\ g.u = NULL
             => /\ last'.res = "ok" /\ alive'[s]
                /\ cb'[s] = NULL /\ ptr'[s] = NULL
                /\ cells' = cells /\ objs' = objs /\ last'.log = <<>>
          /\ (g.u # NULL /\ g.dyn = g.U)
             => /\ last'.res \in {"ok", "throw"}
                /\ last'.res = "ok"
                   => /\ alive'[s] /\ cb'[s] # NULL /\ ptr'[s] = g.u
                      /\ cells'[cb'[s]].kind = "pointer"
                      /\ cells'[cb'[s]].obj = g.u
                      /\ cells'[cb'[s]].U = g.U /\ cells'[cb'[s]].T = ty[s]
                      /\ objs'[g.u] = [live |-> TRUE, dyn |-> g.dyn, val |-> g.v]
                      /\ {a \in Addr : objs'[a] # objs[a]} = {g.u}
                      /\ {i \in CellId : cells'[i] # cells[i]} = {cb'[s]}
                      /\ ~LogHas(last'.log, "copier") /\ ~LogHas(last'.log, "clone")
          /\ (g.u # NULL /\ g.dyn # g.U)
             => /\ last'.res = "asserted" /\ st' = "asserted"
                /\ ~alive'[s] /\ cb'[s] = NULL
                /\ cells' = cells /\ ~LogHas(last'.log, "new_cell")
    ]_vars

C17_Witness ==
  /\ last.op = "adopt_ctor" /\ last.res = "ok"
  /\ last.arg.u # NULL /\ last.arg.U > ty[last.dst]
  /\ ptr[last.dst] = last.arg.u /\ cb[last.dst] # NULL
  /\ objs[last.arg.u].dyn = last.arg.U

Derefs == {"value_const", "deref_const", "value", "deref"}

Assignments == {"copy_assign", "conv_copy_assign", "move_assign", "conv_move_assign"}
Creations(l) == {i \in DOMAIN l : l[i].e \in {"new_obj", "new_cell"}}
Disposals(l) == {i \in DOMAIN l : l[i].e \in {"del_obj", "del_cell"}}

\* C19: when a copy, move or converting assignment replaces the object its
\* target owns, the old object is released first: its release precedes
\* every creation of the step (the clone, the new cells).
C19_OldReleasedFirst ==
  [][\A s, p \in Slots :
       (/\ last'.op \in Assignments /\ last'.dst = s /\ last'.src = p
        /\ s # p /\ Reach(s) # NULL /\ last'.res = "ok")
       => \A i \in Creations(last'.log), j \in Releases(last'.log) :
            last'.log[j].x = Reach(s) => j < i
    ]_vars

\* C19, amended: an assignment that replaces the object its target owns
\* builds the replacement first (the clone and its cell for a copy
\* assignment, the delegating cell for a converting one; a move assignment
\* builds nothing) and releases the old object, once, only after every
\* creation of the step; an assignment that throws has released nothing but
\* what it had built itself and leaves the target owning its old object.
C19_OldReleasedLast ==
  [][\A s, p \in Slots :
       (/\ last'.op \in Assignments /\ last'.dst = s /\ last'.src = p
        /\ s # p /\ Reach(s) # NULL)
       => /\ last'.res = "ok"
             => /\ ~objs'[Reach(s)].live
                /\ Cardinality({j \in Releases(last'.log) :
                                  last'.log[j].x = Reach(s)}) = 1
                /\ \A i \in Creations(last'.log), j \in Disposals(last'.log) : i < j
          /\ last'.res # "ok"
             => /\ \A j \in Disposals(last'.log) :
                     IF last'.log[j].e = "del_obj"
                     THEN ~objs[last'.log[j].x].live
                     ELSE cells[last'.log[j].x].kind = "free"
                /\ cb'[s] = cb[s] /\ ptr'[s] = ptr[s]
                /\ Reach(s)' = Reach(s)
                /\ objs'[Reach(s)] = objs[Reach(s)]
    ]_vars

C19_Witness ==
  /\ last.op = "copy_assign" /\ last.res = "ok" /\ last.dst # last.src
  /\ LogHas(last.log, "new_obj") /\ LogHas(last.log, "del_obj")
  /\ ptr[last.dst] # NULL /\ objs[ptr[last.dst]].live

\* the cells a container holds: its cell and the cells nested in it
RECURSIVE ChainOf(_, _)
ChainOf(cs, id) ==
  IF id = NULL THEN {}
  ELSE {id} \cup (IF cs[id].kind = "delegating" THEN ChainOf(cs, cs[id].delegate)
                  ELSE {})

\* C20: a copy construction or copy assignment, same-type or converting,
\* leaves its source s as it was, however the copy ends: s's cell, the cells
\* nested in it, its cached pointer, and the address, type and value of its
\* object are unchanged, whether s is empty or not.
C20_CopyLeavesSource ==
  [][\A s, p \in Slots :
       (last'.op \in SameCopies \cup ConvCopies /\ last'.dst = s /\ last'.src = p)
       => /\ alive'[p]
          /\ cb'[p] = cb[p] /\ ptr'[p] = ptr[p]
          /\ \A i \in ChainOf(cells, cb[p]) : cells'[i] = cells[i]
          /\ Reach(p)' = Reach(p)
          /\ ptr[p] # NULL => objs'[ptr[p]] = objs[ptr[p]]
          /\ Reach(p) # NULL => objs'[Reach(p)] = objs[Reach(p)]
    ]_vars

C20_Witness ==
  /\ last.op = "conv_copy_ctor" /\ last.res = "ok"
  /\ ptr[last.src] # NULL /\ objs[ptr[last.src]].live
  /\ ptr[last.dst] # NULL /\ ptr[last.dst] # ptr[last.src]
  /\ objs[ptr[last.dst]].val = 1 /\ objs[ptr[last.src]].val = 1

====
